---- MODULE Spec2Model ----
(***************************************************************************)
(* pwgen: a command-line generator of random passwords and usernames.      *)
(* The model follows src/src/main.rs: one run of main() from the parsed    *)
(* command line to the exit of the process.  Characters are one-character  *)
(* strings, a Rust String or Vec<char> is a sequence of them, an           *)
(* Option<T> is the empty sequence (None) or a one-element sequence        *)
(* (Some(v)).  A line written by println! is a sequence of strings: a      *)
(* generated value is printed as its characters, a fixed message as the    *)
(* one-element sequence holding the message.                               *)
(***************************************************************************)
EXTENDS Integers, Sequences, FiniteSets, TLC

VARIABLES
    cli,                  \* the parsed command line (Cli::parse), fixed for the run
    pc,                   \* position of main()
    copy_to_clipboard,    \* main.rs:113
    final_output,         \* main.rs:114
    rng,                  \* main.rs:115, state of the random generator
    is_password,          \* main.rs:116, <<>> while unassigned
    all_characters,       \* main.rs:132
    password_length,      \* main.rs:148
    first_random_word,    \* main.rs:173
    second_random_word,   \* main.rs:174
    chosen_word_char,     \* main.rs:176
    chosen_number_amount, \* main.rs:184
    i,                    \* iterations done by the running for loop
    stdout,               \* the lines printed so far
    rng_draws,            \* number of values drawn from rng so far
    clipboard_new_calls,  \* number of calls of Clipboard::new
    clipboard_texts,      \* the texts handed to Clipboard::set_text, in order
    clipboard_outcome     \* "none", "success", "failure" or "unsupported"

vars == <<cli, pc, copy_to_clipboard, final_output, rng, is_password,
          all_characters, password_length, first_random_word,
          second_random_word, chosen_word_char, chosen_number_amount, i,
          stdout, rng_draws, clipboard_new_calls, clipboard_texts,
          clipboard_outcome>>

----------------------------------------------------------------------------
(* Bounds of the model *)

MaxSets == 2      \* longest --char-set list tried
MaxLen == 2       \* largest accepted --length tried
MaxNumbers == 2   \* largest accepted --numbers tried
MaxSeed == 1      \* seeds 0..MaxSeed of the random generator

----------------------------------------------------------------------------
(* Program constants *)

MAX_PASSWORD_LENGTH == 65536
MAX_NUMBER_AMOUNT == 65536
DEFAULT_PASSWORD_LENGTH == 16
DEFAULT_NUMBER_AMOUNT == 2

None == << >>
Some(v) == << v >>
IsSome(o) == Len(o) > 0
Unwrap(o) == o[1]

CharSet == {"Lower", "Upper", "Digits", "Symbol", "RareSymbol"}

LOWER_CHARS ==
    << "a", "b", "c", "d", "e", "f", "g", "h", "i", "j", "k", "l", "m",
       "n", "o", "p", "q", "r", "s", "t", "u", "v", "w", "x", "y", "z" >>
UPPER_CHARS ==
    << "A", "B", "C", "D", "E", "F", "G", "H", "I", "J", "K", "L", "M",
       "N", "O", "P", "Q", "R", "S", "T", "U", "V", "W", "X", "Y", "Z" >>
DIGITS_CHARS ==
    << "0", "1", "2", "3", "4", "5", "6", "7", "8", "9" >>
SPECIAL_CHARS ==
    << "!", "@", "#", "$", "%", "^", "&", "*", "-", "_", "=", "+", "(",
       ")", "[", "]", "{", "}", "<", ">", ":", ";", ",", ".", "?", "~" >>
\* The grave accent cannot be written inside a TLA+ string; GRAVE stands for it.
GRAVE == "U+0060"
SPECIAL_RARE_CHARS ==
    << "/", "\\", "'", "\"", "|", GRAVE, " " >>

get_char_set(set) ==
    CASE set = "Lower" -> LOWER_CHARS
      [] set = "Upper" -> UPPER_CHARS
      [] set = "Digits" -> DIGITS_CHARS
      [] set = "Symbol" -> SPECIAL_CHARS
      [] set = "RareSymbol" -> SPECIAL_RARE_CHARS

DEFAULT_CHAR_SETS == << "Lower", "Upper", "Digits", "Symbol" >>

\* The bundled word lists: one word per line.  The text files themselves are
\* build inputs; two short lists stand for them.
ADJECTIVE_LIST_RAW ==
    << "r", "e", "d", "\n", "b", "i", "g", "\n", "o", "l", "d", "\n" >>
OBJECT_LIST_RAW ==
    << "c", "a", "t", "\n", "b", "o", "x", "\n", "r", "e", "d" >>

\* str::lines: the text split at "\n"; a final line needs no terminator and
\* a terminator at the end of the text opens no further line.
RECURSIVE LinesFrom(_, _, _)
LinesFrom(raw, k, cur) ==
    IF k > Len(raw)
    THEN IF cur = << >> THEN << >> ELSE << cur >>
    ELSE IF raw[k] = "\n"
         THEN << cur >> \o LinesFrom(raw, k + 1, << >>)
         ELSE LinesFrom(raw, k + 1, Append(cur, raw[k]))

Lines(raw) == LinesFrom(raw, 1, << >>)

ADJECTIVE_LIST == Lines(ADJECTIVE_LIST_RAW)
OBJECT_LIST == Lines(OBJECT_LIST_RAW)

----------------------------------------------------------------------------
(* The random generator.  rand::rng() is a generator seeded by the         *)
(* operating system; the model runs a full-period congruential generator   *)
(* from a seed chosen in Init, so each run sees one of a few streams.      *)

RngNext(s) == (s * 5 + 3) % 256

\* slice::choose: an element at a random index of a non-empty slice, None
\* for an empty one.
Choose(vec, s) == IF Len(vec) = 0 THEN None ELSE Some(vec[(s % Len(vec)) + 1])

\* Rng::random_range(lo..hi)
RandomRange(s, lo, hi) == lo + (s % (hi - lo))

\* ToString::to_string for a non-negative integer: its decimal digits.
RECURSIVE to_string(_)
to_string(n) ==
    IF n < 10 THEN << DIGITS_CHARS[n + 1] >>
    ELSE Append(to_string(n \div 10), DIGITS_CHARS[(n % 10) + 1])

----------------------------------------------------------------------------
(* Printed messages *)

MSG_NO_CHARACTERS ==
    << "No characters are allowed! Try to add more character sets or exclude less characters." >>
MSG_PASSWORD_TOO_LONG ==
    << "Password too long! Cannot be longer than 65536." >>
MSG_TOO_MANY_NUMBERS ==
    << "Too many numbers! Cannot be more than 65536." >>
MSG_PASSWORD_COPIED == << "Password copied to clipboard." >>
MSG_USERNAME_COPIED == << "Username copied to clipboard." >>
MSG_UNABLE_TO_COPY == << "Unable to copy to clipboard." >>
MSG_NOT_SUPPORTED ==
    << "Unable to copy to clipboard because it is not supported by OS." >>

----------------------------------------------------------------------------
(* The command lines tried *)

RECURSIVE SeqsUpTo(_, _)
SeqsUpTo(S, n) ==
    IF n = 0 THEN { << >> }
    ELSE LET shorter == SeqsUpTo(S, n - 1)
         IN shorter \cup { Append(q, x) : q \in shorter, x \in S }

\* --char-set: a non-empty list of set names, repetitions allowed.
CharSetLists == SeqsUpTo(CharSet, MaxSets) \ { << >> }

\* --exclude: the empty string, a string with a repeated character, every
\* digit, and every rare symbol and digit together.
ExcludeStrings ==
    { << >>, << "a", "0", "a", "!" >>, DIGITS_CHARS,
      SPECIAL_RARE_CHARS \o DIGITS_CHARS }

\* --length: small lengths, and two lengths over the limit
LengthValues == (0 .. MaxLen) \cup { MAX_PASSWORD_LENGTH + 1, 2 * MAX_PASSWORD_LENGTH }

\* --numbers: small amounts, and two amounts over the limit
NumberValues == (0 .. MaxNumbers) \cup { MAX_NUMBER_AMOUNT + 1, 2 * MAX_NUMBER_AMOUNT }

\* --word-char: a punctuation mark, a digit, a letter of the words
WordChars == { "-", "7", "d" }

Optional(S) == { None } \cup { Some(v) : v \in S }

PasswordArgs ==
    [ length : Optional(LengthValues),
      character_sets : Optional(CharSetLists),
      excluded_chars : Optional(ExcludeStrings),
      copy_disabled : BOOLEAN,
      hide_disabled : BOOLEAN ]

UsernameArgs ==
    [ numbers : Optional(NumberValues),
      word_char : Optional(WordChars),
      copy_disabled : BOOLEAN ]

Commands ==
    { [ kind |-> "Password", args |-> a ] : a \in PasswordArgs }
    \cup { [ kind |-> "Username", args |-> a ] : a \in UsernameArgs }

Cli == [ command : Optional(Commands) ]

\* The command main() matches on: the one given, or the password
\* subcommand with nothing set.
DefaultCommand ==
    [ kind |-> "Password",
      args |-> [ length |-> None, character_sets |-> None,
                 excluded_chars |-> None, copy_disabled |-> FALSE,
                 hide_disabled |-> FALSE ] ]

Command == IF IsSome(cli.command) THEN Unwrap(cli.command) ELSE DefaultCommand

Args == Command.args

----------------------------------------------------------------------------
(* State after Cli::parse and the declarations of main *)

Init ==
    /\ cli \in Cli
    /\ pc = "match"
    /\ copy_to_clipboard = TRUE
    /\ final_output = << >>
    /\ rng \in 0 .. MaxSeed
    /\ is_password = None
    /\ all_characters = << >>
    /\ password_length = 0
    /\ first_random_word = << >>
    /\ second_random_word = << >>
    /\ chosen_word_char = << >>
    /\ chosen_number_amount = 0
    /\ i = 0
    /\ stdout = << >>
    /\ rng_draws = 0
    /\ clipboard_new_calls = 0
    /\ clipboard_texts = << >>
    /\ clipboard_outcome = "none"

Println(line) == stdout' = Append(stdout, line)

password_locals == << all_characters, password_length >>
username_locals == << first_random_word, second_random_word,
                      chosen_word_char, chosen_number_amount >>
clipboard_vars == << clipboard_new_calls, clipboard_texts, clipboard_outcome >>

----------------------------------------------------------------------------
(* Password mode *)

\* MatchPassword leaving the copy flag as it is.
MatchPassword_IgnoresNoCopy ==
    /\ pc = "match"
    /\ Command.kind = "Password"
    /\ is_password' = Some(TRUE)
    /\ pc' = "build"
    /\ UNCHANGED << cli, copy_to_clipboard, final_output, rng,
                    all_characters, password_length, first_random_word,
                    second_random_word, chosen_word_char,
                    chosen_number_amount, i, stdout, rng_draws,
                    clipboard_new_calls, clipboard_texts, clipboard_outcome >>

\* main.rs:120-130: the arm is entered, the copy flag is taken from the
\* arguments.
MatchPassword ==
    /\ pc = "match"
    /\ Command.kind = "Password"
    /\ is_password' = Some(TRUE)
    /\ copy_to_clipboard' = IF Args.copy_disabled THEN FALSE ELSE copy_to_clipboard
    /\ pc' = "build"
    /\ UNCHANGED << cli, final_output, rng, password_locals, username_locals,
                    i, stdout, rng_draws, clipboard_vars >>

chosen_character_sets ==
    IF IsSome(Args.character_sets) THEN Unwrap(Args.character_sets)
    ELSE DEFAULT_CHAR_SETS

\* Vec::extend over the chosen sets, in their order.
RECURSIVE ExtendAll(_, _)
ExtendAll(acc, sets) ==
    IF sets = << >> THEN acc
    ELSE ExtendAll(acc \o get_char_set(Head(sets)), Tail(sets))

\* main.rs:132-135
BuildAlphabet ==
    /\ pc = "build"
    /\ all_characters' = ExtendAll(<< >>, chosen_character_sets)
    /\ pc' = "exclude"
    /\ UNCHANGED << cli, copy_to_clipboard, final_output, rng, is_password,
                    password_length, username_locals, i, stdout, rng_draws,
                    clipboard_vars >>

\* Retain removing the first occurrence only.
RetainFirst(chars, excluded_char) ==
    LET at == { k \in 1 .. Len(chars) : chars[k] = excluded_char }
    IN IF at = { } THEN chars
       ELSE LET first == CHOOSE k \in at : \A m \in at : k <= m
            IN SubSeq(chars, 1, first - 1) \o SubSeq(chars, first + 1, Len(chars))

\* Vec::retain(|&c| c != excluded_char)
Retain(chars, excluded_char) ==
    SelectSeq(chars, LAMBDA c : c # excluded_char)

\* The loop over excluded_chars.chars(): chars after the first n excluded
\* characters have each been removed in turn.
RECURSIVE RetainAll(_, _, _)
RetainAll(chars, excluded_chars, n) ==
    IF n = 0 THEN chars
    ELSE Retain(RetainAll(chars, excluded_chars, n - 1), excluded_chars[n])

\* main.rs:137-141
Exclude ==
    /\ pc = "exclude"
    /\ all_characters' =
          IF IsSome(Args.excluded_chars)
          THEN RetainAll(all_characters, Unwrap(Args.excluded_chars),
                         Len(Unwrap(Args.excluded_chars)))
          ELSE all_characters
    /\ pc' = "check_empty"
    /\ UNCHANGED << cli, copy_to_clipboard, final_output, rng, is_password,
                    password_length, username_locals, i, stdout, rng_draws,
                    clipboard_vars >>

\* CheckEmpty without its return: the message is printed and main goes on.
CheckEmpty_NoReturn ==
    /\ pc = "check_empty"
    /\ IF Len(all_characters) = 0
       THEN Println(MSG_NO_CHARACTERS)
       ELSE UNCHANGED stdout
    /\ pc' = "check_length"
    /\ UNCHANGED << cli, copy_to_clipboard, final_output, rng, is_password,
                    password_locals, username_locals, i, rng_draws,
                    clipboard_vars >>

\* CheckEmpty with the length looked at first.
CheckEmpty_LengthFirst ==
    /\ pc = "check_empty"
    /\ IF IsSome(Args.length) /\ Unwrap(Args.length) > MAX_PASSWORD_LENGTH
       THEN /\ Println(MSG_PASSWORD_TOO_LONG)
            /\ pc' = "exit"
       ELSE IF Len(all_characters) = 0
            THEN /\ Println(MSG_NO_CHARACTERS)
                 /\ pc' = "exit"
            ELSE /\ pc' = "check_length"
                 /\ UNCHANGED stdout
    /\ UNCHANGED << cli, copy_to_clipboard, final_output, rng, is_password,
                    password_locals, username_locals, i, rng_draws,
                    clipboard_vars >>

\* main.rs:143-146
CheckEmpty ==
    /\ pc = "check_empty"
    /\ IF Len(all_characters) = 0
       THEN /\ Println(MSG_NO_CHARACTERS)
            /\ pc' = "exit"
       ELSE /\ pc' = "check_length"
            /\ UNCHANGED stdout
    /\ UNCHANGED << cli, copy_to_clipboard, final_output, rng, is_password,
                    password_locals, username_locals, i, rng_draws,
                    clipboard_vars >>

\* LengthTooLarge with a digit too many in the limit.
LengthTooLarge_WrongLimit(new_length) == new_length > 10 * MAX_PASSWORD_LENGTH

LengthTooLarge(new_length) == new_length > MAX_PASSWORD_LENGTH

\* main.rs:148-155
CheckLength ==
    /\ pc = "check_length"
    /\ IF IsSome(Args.length) /\ LengthTooLarge(Unwrap(Args.length))
       THEN /\ Println(MSG_PASSWORD_TOO_LONG)
            /\ pc' = "exit"
            /\ UNCHANGED password_length
       ELSE /\ password_length' =
                  IF IsSome(Args.length) THEN Unwrap(Args.length)
                  ELSE DEFAULT_PASSWORD_LENGTH
            /\ pc' = "sample"
            /\ UNCHANGED stdout
    /\ i' = 0
    /\ UNCHANGED << cli, copy_to_clipboard, final_output, rng, is_password,
                    all_characters, username_locals, rng_draws, clipboard_vars >>

\* InRange with the bound included, as in 0..=n.
InRangeInclusive(k, n) == k <= n

\* for _ in 0..n: the loop runs another iteration after k of them
InRange(k, n) == k < n

\* main.rs:157-160: one iteration of the sampling loop
SampleChar ==
    /\ pc = "sample"
    /\ InRange(i, password_length)
    /\ LET random_char == Choose(all_characters, rng)
       IN IF IsSome(random_char)
          THEN /\ final_output' = Append(final_output, Unwrap(random_char))
               /\ pc' = pc
          ELSE /\ pc' = "panic"      \* unwrap of None
               /\ UNCHANGED final_output
    /\ rng' = RngNext(rng)
    /\ rng_draws' = rng_draws + 1
    /\ i' = i + 1
    /\ UNCHANGED << cli, copy_to_clipboard, is_password, password_locals,
                    username_locals, stdout, clipboard_vars >>

\* main.rs:162-164, reached when the loop has run password_length times
ShowPassword ==
    /\ pc = "sample"
    /\ ~InRange(i, password_length)
    /\ IF Args.hide_disabled
       THEN Println(final_output)
       ELSE UNCHANGED stdout
    /\ pc' = "copy"
    /\ UNCHANGED << cli, copy_to_clipboard, final_output, rng, is_password,
                    password_locals, username_locals, i, rng_draws,
                    clipboard_vars >>

----------------------------------------------------------------------------
(* Username mode *)

\* main.rs:167-171
MatchUsername ==
    /\ pc = "match"
    /\ Command.kind = "Username"
    /\ is_password' = Some(FALSE)
    /\ copy_to_clipboard' = IF Args.copy_disabled THEN FALSE ELSE copy_to_clipboard
    /\ pc' = "words"
    /\ UNCHANGED << cli, final_output, rng, password_locals, username_locals,
                    i, stdout, rng_draws, clipboard_vars >>

\* main.rs:173-174: one draw from each list; expect panics on an empty list
DrawWords ==
    /\ pc = "words"
    /\ LET first == Choose(ADJECTIVE_LIST, rng)
           second == Choose(OBJECT_LIST, RngNext(rng))
       IN IF IsSome(first) /\ IsSome(second)
          THEN /\ first_random_word' = Unwrap(first)
               /\ second_random_word' = Unwrap(second)
               /\ rng' = RngNext(RngNext(rng))
               /\ rng_draws' = rng_draws + 2
               /\ pc' = "format"
          ELSE /\ pc' = "panic"
               /\ UNCHANGED << first_random_word, second_random_word, rng,
                               rng_draws >>
    /\ UNCHANGED << cli, copy_to_clipboard, final_output, is_password,
                    password_locals, chosen_word_char, chosen_number_amount,
                    i, stdout, clipboard_vars >>

\* Format3 with its last two arguments in the wrong order.
Format3_Swapped(a, b, c) == a \o c \o b

\* format!("{}{}{}", ...)
Format3(a, b, c) == a \o b \o c

\* main.rs:176-182
FormatWords ==
    /\ pc = "format"
    /\ chosen_word_char' =
          IF IsSome(Args.word_char) THEN << Unwrap(Args.word_char) >>
          ELSE << >>
    /\ final_output' =
          Format3(first_random_word, chosen_word_char', second_random_word)
    /\ pc' = "check_numbers"
    /\ UNCHANGED << cli, copy_to_clipboard, rng, is_password, password_locals,
                    first_random_word, second_random_word,
                    chosen_number_amount, i, stdout, rng_draws,
                    clipboard_vars >>

TooManyNumbers(user_number_amount) == user_number_amount > MAX_NUMBER_AMOUNT

\* main.rs:184-192
CheckNumbers ==
    /\ pc = "check_numbers"
    /\ IF IsSome(Args.numbers) /\ TooManyNumbers(Unwrap(Args.numbers))
       THEN /\ Println(MSG_TOO_MANY_NUMBERS)
            /\ pc' = "exit"
            /\ UNCHANGED chosen_number_amount
       ELSE /\ chosen_number_amount' =
                  IF IsSome(Args.numbers) THEN Unwrap(Args.numbers)
                  ELSE DEFAULT_NUMBER_AMOUNT
            /\ pc' = "word_char"
            /\ UNCHANGED stdout
    /\ UNCHANGED << cli, copy_to_clipboard, final_output, rng, is_password,
                    password_locals, first_random_word, second_random_word,
                    chosen_word_char, i, rng_draws, clipboard_vars >>

\* SeparatesNumbers without the test of the amount.
SeparatesNumbers_Always(number_amount) == TRUE

\* The condition of main.rs:194
SeparatesNumbers(number_amount) == number_amount > 0

\* main.rs:194-196
PushWordChar ==
    /\ pc = "word_char"
    /\ final_output' =
          IF SeparatesNumbers(chosen_number_amount)
          THEN final_output \o chosen_word_char
          ELSE final_output
    /\ i' = 0
    /\ pc' = "numbers"
    /\ UNCHANGED << cli, copy_to_clipboard, rng, is_password, password_locals,
                    username_locals, stdout, rng_draws, clipboard_vars >>

\* main.rs:198-200: one iteration of the digit loop
DrawDigit ==
    /\ pc = "numbers"
    /\ InRange(i, chosen_number_amount)
    /\ final_output' = final_output \o to_string(RandomRange(rng, 0, 10))
    /\ rng' = RngNext(rng)
    /\ rng_draws' = rng_draws + 1
    /\ i' = i + 1
    /\ UNCHANGED << cli, pc, copy_to_clipboard, is_password, password_locals,
                    username_locals, stdout, clipboard_vars >>

\* main.rs:203, reached when the loop has run chosen_number_amount times
PrintUsername ==
    /\ pc = "numbers"
    /\ ~InRange(i, chosen_number_amount)
    /\ Println(final_output)
    /\ pc' = "copy"
    /\ UNCHANGED << cli, copy_to_clipboard, final_output, rng, is_password,
                    password_locals, username_locals, i, rng_draws,
                    clipboard_vars >>

----------------------------------------------------------------------------
(* The clipboard *)

\* main.rs:207 with the flag cleared: main returns
SkipCopy ==
    /\ pc = "copy"
    /\ ~copy_to_clipboard
    /\ pc' = "exit"
    /\ UNCHANGED << cli, copy_to_clipboard, final_output, rng, is_password,
                    password_locals, username_locals, i, stdout, rng_draws,
                    clipboard_vars >>

\* ClipboardNew printing the value when the clipboard cannot be opened.
ClipboardNew_PrintsValue ==
    /\ pc = "copy"
    /\ copy_to_clipboard
    /\ clipboard_new_calls' = clipboard_new_calls + 1
    /\ \E ok \in BOOLEAN :
          IF ok
          THEN /\ pc' = "set_text"
               /\ UNCHANGED << stdout, clipboard_outcome >>
          ELSE /\ stdout' = stdout \o << final_output, MSG_NOT_SUPPORTED >>
               /\ clipboard_outcome' = "unsupported"
               /\ pc' = "exit"
    /\ UNCHANGED << cli, copy_to_clipboard, final_output, rng, is_password,
                    password_locals, username_locals, i, rng_draws,
                    clipboard_texts >>

\* main.rs:207-208, 219-221: Clipboard::new succeeds or fails
ClipboardNew ==
    /\ pc = "copy"
    /\ copy_to_clipboard
    /\ clipboard_new_calls' = clipboard_new_calls + 1
    /\ \E ok \in BOOLEAN :
          IF ok
          THEN /\ pc' = "set_text"
               /\ UNCHANGED << stdout, clipboard_outcome >>
          ELSE /\ Println(MSG_NOT_SUPPORTED)
               /\ clipboard_outcome' = "unsupported"
               /\ pc' = "exit"
    /\ UNCHANGED << cli, copy_to_clipboard, final_output, rng, is_password,
                    password_locals, username_locals, i, rng_draws,
                    clipboard_texts >>

\* main.rs:209-218: set_text succeeds or fails
ClipboardSetText ==
    /\ pc = "set_text"
    /\ clipboard_texts' = Append(clipboard_texts, final_output)
    /\ \E clipboard_success \in BOOLEAN :
          IF clipboard_success
          THEN /\ Println(IF Unwrap(is_password) THEN MSG_PASSWORD_COPIED
                          ELSE MSG_USERNAME_COPIED)
               /\ clipboard_outcome' = "success"
          ELSE /\ Println(MSG_UNABLE_TO_COPY)
               /\ clipboard_outcome' = "failure"
    /\ pc' = "exit"
    /\ UNCHANGED << cli, copy_to_clipboard, final_output, rng, is_password,
                    password_locals, username_locals, i, rng_draws,
                    clipboard_new_calls >>

----------------------------------------------------------------------------

Next ==
    \/ MatchPassword
    \/ BuildAlphabet
    \/ Exclude
    \/ CheckEmpty
    \/ CheckLength
    \/ SampleChar
    \/ ShowPassword
    \/ MatchUsername
    \/ DrawWords
    \/ FormatWords
    \/ CheckNumbers
    \/ PushWordChar
    \/ DrawDigit
    \/ PrintUsername
    \/ SkipCopy
    \/ ClipboardNew
    \/ ClipboardSetText

Spec == Init /\ [][Next]_vars

----------------------------------------------------------------------------
(* Vocabulary of the properties *)

Range(seq) == { seq[k] : k \in 1 .. Len(seq) }

PasswordMode == Command.kind = "Password"
UsernameMode == Command.kind = "Username"

\* The characters of the selected sets, and the excluded ones, as sets.
SelectedChars ==
    UNION { Range(get_char_set(chosen_character_sets[k])) :
              k \in 1 .. Len(chosen_character_sets) }
ExcludedChars ==
    IF IsSome(Args.excluded_chars) THEN Range(Unwrap(Args.excluded_chars)) ELSE { }
Alphabet == SelectedChars \ ExcludedChars

RequestedLength == IF IsSome(Args.length) THEN Unwrap(Args.length) ELSE 16
RequestedNumbers == IF IsSome(Args.numbers) THEN Unwrap(Args.numbers) ELSE 2

ErrorLines == { MSG_NO_CHARACTERS, MSG_PASSWORD_TOO_LONG, MSG_TOO_MANY_NUMBERS }
StatusLines ==
    { MSG_PASSWORD_COPIED, MSG_USERNAME_COPIED, MSG_UNABLE_TO_COPY, MSG_NOT_SUPPORTED }

ErrorsPrinted == { k \in 1 .. Len(stdout) : stdout[k] \in ErrorLines }
StatusPrinted == { k \in 1 .. Len(stdout) : stdout[k] \in StatusLines }

\* Positions of main() after the generated string is complete.
Generated == pc \in { "copy", "set_text" } \/ (pc = "exit" /\ ErrorsPrinted = { })

----------------------------------------------------------------------------
(* C1: in password mode, with a non-empty alphabet and a requested length  *)
(* L <= 65536 (16 when none is given), the run never prints an error and   *)
(* never panics, and once the sampling loop is left the password has       *)
(* exactly L characters, each a character of the selected sets that is     *)
(* not excluded; L = 0 gives the empty password.                           *)
C1_PasswordLengthAndAlphabet ==
    (PasswordMode /\ Alphabet # { } /\ RequestedLength <= 65536) =>
        /\ ErrorsPrinted = { }
        /\ pc # "panic"
        /\ Range(final_output) \subseteq Alphabet
        /\ Len(final_output) <= RequestedLength
        /\ pc \in { "copy", "set_text", "exit" } => Len(final_output) = RequestedLength

C1_Witness ==
    /\ PasswordMode /\ pc = "exit"
    /\ IsSome(Args.length) /\ Unwrap(Args.length) = 2
    /\ ExcludedChars # { }
    /\ Len(final_output) = 2
    /\ final_output[1] # final_output[2]

\* C1, the case L = 0 reaches the end of the run with the empty password.
C1_WitnessZero ==
    /\ PasswordMode /\ pc = "exit" /\ Args.length = Some(0)
    /\ final_output = << >> /\ ErrorsPrinted = { }

(* C2: in password mode, once the exclusion loop has run, no excluded      *)
(* character occurs in the alphabet, and none occurs in the password,      *)
(* also when the list of sets names a set twice.                           *)
C2_ExcludedNeverAppear ==
    (PasswordMode /\ pc \notin { "match", "build", "exclude" }) =>
        /\ Range(all_characters) \cap ExcludedChars = { }
        /\ Range(final_output) \cap ExcludedChars = { }

C2_Witness ==
    /\ PasswordMode /\ pc = "exit"
    /\ Len(chosen_character_sets) = 2
    /\ chosen_character_sets[1] = chosen_character_sets[2]
    /\ ExcludedChars \cap SelectedChars # { }
    /\ Len(final_output) > 1

(* C3: in password mode, when every character of the selected sets is      *)
(* excluded, the run draws nothing, generates nothing, never reaches the   *)
(* clipboard, and ends having printed the empty-alphabet message alone.    *)
C3_EmptyAlphabetRejected ==
    (PasswordMode /\ SelectedChars \subseteq ExcludedChars) =>
        /\ rng_draws = 0
        /\ final_output = << >>
        /\ clipboard_new_calls = 0 /\ clipboard_texts = << >>
        /\ pc \in { "match", "build", "exclude", "check_empty", "exit" }
        /\ stdout = IF pc = "exit" THEN << MSG_NO_CHARACTERS >> ELSE << >>

C3_Witness ==
    /\ PasswordMode /\ pc = "exit"
    /\ SelectedChars \subseteq ExcludedChars
    /\ Len(chosen_character_sets) = 2
    /\ ~Args.copy_disabled /\ Args.hide_disabled
    /\ stdout = << MSG_NO_CHARACTERS >>

----------------------------------------------------------------------------
\* A requested size over the limit of 65536.
TooLarge ==
    \/ PasswordMode /\ IsSome(Args.length) /\ Unwrap(Args.length) > 65536
    \/ UsernameMode /\ IsSome(Args.numbers) /\ Unwrap(Args.numbers) > 65536

\* What both readings of C4 share: nothing but one explanatory message is
\* ever printed, the clipboard is never reached, and the run ends with the
\* message printed.
RejectedQuietly ==
    /\ Range(stdout) \subseteq ErrorLines
    /\ Len(stdout) = IF pc = "exit" THEN 1 ELSE 0
    /\ clipboard_new_calls = 0 /\ clipboard_texts = << >>
    /\ pc \notin { "sample", "word_char", "numbers", "copy", "set_text", "panic" }

(* C4 as stated: a password length or a digit count over 65536 is          *)
(* rejected with no random draw performed at all, in both modes, no        *)
(* generated output printed and no clipboard write attempted.              *)
C4_NoDrawAtAll ==
    TooLarge => (RejectedQuietly /\ rng_draws = 0)

(* C4 as amended: a password length or a digit count over 65536 is         *)
(* rejected before any password character or digit is drawn, with one      *)
(* explanatory message printed, no generated output printed and no         *)
(* clipboard write attempted; password mode draws nothing, username mode   *)
(* has drawn its two words, and nothing else, when the count is checked.   *)
C4_RejectedBeforeDigits ==
    TooLarge =>
        /\ RejectedQuietly
        /\ PasswordMode => (rng_draws = 0 /\ final_output = << >>)
        /\ UsernameMode =>
              rng_draws = (IF pc \in { "match", "words" } THEN 0 ELSE 2)
        /\ (UsernameMode /\ pc = "exit") =>
              /\ stdout = << MSG_TOO_MANY_NUMBERS >>
              /\ final_output = first_random_word \o chosen_word_char \o second_random_word

C4_Witness ==
    /\ UsernameMode /\ TooLarge /\ pc = "exit"
    /\ rng_draws = 2
    /\ ~Args.copy_disabled
    /\ stdout = << MSG_TOO_MANY_NUMBERS >>

\* C4, password mode: the over-long length is refused with its own message.
C4_WitnessPassword ==
    /\ PasswordMode /\ TooLarge /\ pc = "exit"
    /\ stdout = << MSG_PASSWORD_TOO_LONG >> /\ rng_draws = 0

----------------------------------------------------------------------------
\* The separator asked for, as a string: empty when none is given.
Separator ==
    IF IsSome(Args.word_char) THEN << Unwrap(Args.word_char) >> ELSE << >>

\* The last n characters of a string, and what precedes them.
Suffix(str, n) == SubSeq(str, Len(str) - n + 1, Len(str))
Prefix(str, n) == SubSeq(str, 1, Len(str) - n)

UsernameDone == UsernameMode /\ Generated

(* C5 as stated: with digit count 0 and a separator, the username is       *)
(* adjective + separator + object + separator.                             *)
C5_TrailingSeparator ==
    (UsernameDone /\ Args.numbers = Some(0) /\ IsSome(Args.word_char)) =>
        final_output =
            first_random_word \o Separator \o second_random_word \o Separator

(* C5 as amended: with digit count 0 and a separator, the username is      *)
(* adjective + separator + object; no separator follows the object and     *)
(* there is no digit suffix.                                               *)
C5_NoTrailingSeparator ==
    (UsernameDone /\ Args.numbers = Some(0) /\ IsSome(Args.word_char)) =>
        /\ final_output = first_random_word \o Separator \o second_random_word
        /\ first_random_word \in Range(ADJECTIVE_LIST)
        /\ second_random_word \in Range(OBJECT_LIST)
        /\ stdout[1] = final_output

C5_Witness ==
    /\ UsernameMode /\ pc = "exit" /\ ErrorsPrinted = { }
    /\ Args.numbers = Some(0) /\ Args.word_char = Some("-")
    /\ Len(final_output) = 7
    /\ final_output[4] = "-" /\ final_output[7] # "-"

\* The shape adjective [sep] object [sep] digits, the second separator
\* present when second_sep holds.
UsernameShape(second_sep) ==
    LET n == RequestedNumbers
        digits == Suffix(final_output, n)
        words == first_random_word \o Separator \o second_random_word
    IN /\ Len(final_output) >= n
       /\ Len(digits) = n
       /\ Range(digits) \subseteq Range(DIGITS_CHARS)
       /\ Prefix(final_output, n) =
             words \o (IF second_sep THEN Separator ELSE << >>)
       /\ first_random_word \in Range(ADJECTIVE_LIST)
       /\ second_random_word \in Range(OBJECT_LIST)
       /\ Len(stdout) >= 1 /\ stdout[1] = final_output

(* C6 as stated: for every digit count N <= 65536 (2 when none is given)   *)
(* the printed username is adjective, separator if given, object,          *)
(* separator again if given, then exactly N digits.                        *)
C6_SeparatorAlwaysRepeated ==
    (UsernameMode /\ RequestedNumbers <= 65536
        /\ pc \in { "copy", "set_text", "exit" }) => UsernameShape(TRUE)

(* C6 as amended: for every digit count N <= 65536 (2 when none is given)  *)
(* the printed username is adjective, separator if given, object,          *)
(* separator again if given and N > 0, then exactly N digits, the words    *)
(* members of their lists.                                                 *)
C6_SeparatorRepeatedBeforeDigits ==
    (UsernameMode /\ RequestedNumbers <= 65536
        /\ pc \in { "copy", "set_text", "exit" }) =>
            UsernameShape(RequestedNumbers > 0)

C6_Witness ==
    /\ UsernameMode /\ pc = "exit"
    /\ Args.numbers = None /\ Args.word_char = Some("7")
    /\ Len(final_output) = Len(first_random_word) + Len(second_random_word) + 4
    /\ stdout[1] = final_output

----------------------------------------------------------------------------
\* The status line of each clipboard outcome.
StatusLine(outcome) ==
    CASE outcome = "success" ->
             IF PasswordMode THEN MSG_PASSWORD_COPIED ELSE MSG_USERNAME_COPIED
      [] outcome = "failure" -> MSG_UNABLE_TO_COPY
      [] outcome = "unsupported" -> MSG_NOT_SUPPORTED

\* The run prints its generated value: always in username mode, under
\* --no-hide in password mode.
ValueShown == UsernameMode \/ (PasswordMode /\ Args.hide_disabled)

\* The clipboard has been attempted.
Attempted == clipboard_new_calls > 0

C7_WitnessHidden ==
    /\ Attempted /\ pc = "exit" /\ PasswordMode /\ ~Args.hide_disabled
    /\ Len(final_output) = 2 /\ stdout = << MSG_PASSWORD_COPIED >>

----------------------------------------------------------------------------
\* Generation succeeds: stated on the arguments alone.
Succeeds ==
    \/ PasswordMode /\ Alphabet # { } /\ RequestedLength <= 65536
    \/ UsernameMode /\ RequestedNumbers <= 65536

\* The length of the complete generated string.
CompleteLength ==
    IF PasswordMode THEN RequestedLength
    ELSE Len(first_random_word) + Len(second_random_word) + RequestedNumbers
         + (IF RequestedNumbers > 0 THEN 2 ELSE 1) * Len(Separator)

(* C8: the clipboard is attempted at most once; at the end of the run it   *)
(* has been attempted exactly when generation succeeded and no-copy is     *)
(* not set; set_text, called when the clipboard could be opened, receives  *)
(* the complete generated string, printed or not; exactly one status line  *)
(* is printed, after the attempt and last.                                 *)
C8_ClipboardAttemptedOnce ==
    /\ clipboard_new_calls <= 1
    /\ Len(clipboard_texts) <= 1
    /\ StatusPrinted # { } => Attempted
    /\ pc = "exit" =>
          /\ Attempted <=> (Succeeds /\ ~Args.copy_disabled)
          /\ Attempted =>
                /\ Cardinality(StatusPrinted) = 1
                /\ stdout[Len(stdout)] \in StatusLines
                /\ clipboard_texts =
                      IF clipboard_outcome = "unsupported" THEN << >>
                      ELSE << final_output >>
                /\ Len(final_output) = CompleteLength

C8_Witness ==
    /\ pc = "exit" /\ PasswordMode /\ ~Args.hide_disabled /\ ~Args.copy_disabled
    /\ Args.length = None
    /\ clipboard_outcome = "success"
    /\ clipboard_new_calls = 1
    /\ Len(final_output) = 16
    /\ clipboard_texts = << final_output >>

\* C8, the other side: a successful run under no-copy ends without attempt.
C8_WitnessNoCopy ==
    /\ pc = "exit" /\ UsernameMode /\ Args.copy_disabled /\ Succeeds
    /\ clipboard_new_calls = 0 /\ stdout = << final_output >>

----------------------------------------------------------------------------
(* C9: with no subcommand the run is a password run with the defaults: 16  *)
(* characters from Lower, Upper, Digits and Symbol, no character excluded, *)
(* the clipboard attempted, and the password shown on standard output.     *)
C9_DefaultRunShowsPassword ==
    (cli.command = None /\ pc = "exit") =>
        /\ is_password = Some(TRUE)
        /\ Len(final_output) = 16
        /\ Range(final_output) \subseteq
              Range(LOWER_CHARS \o UPPER_CHARS \o DIGITS_CHARS \o SPECIAL_CHARS)
        /\ all_characters =
              LOWER_CHARS \o UPPER_CHARS \o DIGITS_CHARS \o SPECIAL_CHARS
        /\ clipboard_new_calls = 1
        /\ final_output \in Range(stdout)

\* C9 without its last clause: what the default run does do.
C9_DefaultRunOtherwise ==
    (cli.command = None /\ pc = "exit") =>
        /\ is_password = Some(TRUE)
        /\ Len(final_output) = 16
        /\ all_characters =
              LOWER_CHARS \o UPPER_CHARS \o DIGITS_CHARS \o SPECIAL_CHARS
        /\ clipboard_new_calls = 1
        /\ stdout = << StatusLine(clipboard_outcome) >>

----------------------------------------------------------------------------
(* C10: in password mode the empty alphabet is checked before the length:  *)
(* with an empty alphabet and a length over 65536 the run ends with the    *)
(* empty-alphabet message and not the length message; the length message   *)
(* is printed only when the alphabet is non-empty; at most one error       *)
(* message is printed in a run.                                            *)
C10_EmptyAlphabetFirst ==
    PasswordMode =>
        /\ Cardinality(ErrorsPrinted) <= 1
        /\ MSG_PASSWORD_TOO_LONG \in Range(stdout) => Alphabet # { }
        /\ MSG_NO_CHARACTERS \in Range(stdout) => Alphabet = { }
        /\ (pc = "exit" /\ Alphabet = { }) => stdout = << MSG_NO_CHARACTERS >>
        /\ (pc = "exit" /\ Alphabet # { } /\ TooLarge) =>
              stdout = << MSG_PASSWORD_TOO_LONG >>

C10_Witness ==
    /\ PasswordMode /\ pc = "exit"
    /\ Alphabet = { } /\ TooLarge
    /\ stdout = << MSG_NO_CHARACTERS >>

====
